---- MODULE Spec2Model ----
(***************************************************************************)
(* The heat / electricity-load pipeline of processing.py as a state        *)
(* machine over the contents of the DuckDB file heatgrid.duckdb (db), and  *)
(* the data frame that load_data() of analysis.py hands to the plots (df). *)
(*                                                                         *)
(* A table is a record [exists, rows]: rows is a bag (multiset) of row     *)
(* records, so duplicate rows are kept apart from distinct ones; the       *)
(* physical row order that ORDER BY gives a CREATE TABLE AS is not part of *)
(* the contents.  A nullable SQL value is Null (the empty tuple) or the    *)
(* one-element tuple <<v>>.  A timestamp is [year, mmdd, hour], a day is   *)
(* [year, mmdd].  quantile_cont(x, 0.90) is kept exact by storing t90_max  *)
(* multiplied by Q90Den (tenths of a degree); AVG is kept exact as a       *)
(* reduced fraction <<numerator, denominator>>.                            *)
(***************************************************************************)
EXTENDS Integers, Sequences, FiniteSets, Bags, TLC

VARIABLES db, df

vars == <<db, df>>

----------------------------------------------------------------------------
(* Bounds of the model and the value sets the hourly rows are drawn from.  *)

MaxRows == 2

Stations == {"IAD", "BOS", "DCA"}
Regions == {"PJM", "ISNE"}
Years == {2022, 2023}
MonthDays == {"07-04", "07-05"}
Hours == {14, 15}
Temps == {30, 35}
Loads == {500, 700}

Null == <<>>

Nullable(S) == {Null} \cup {<<v>> : v \in S}

Timestamps == [year : Years, mmdd : MonthDays, hour : Hours]

(* Hourly temperature rows of one station, any day and hour. *)
ClimateRows ==
    [station : {"IAD"}, hour_utc : Timestamps, temp_C : Nullable(Temps)]

(* Hourly load rows of one year. *)
LoadRows ==
    [region : Regions,
     hour_utc : [year : {2023}, mmdd : MonthDays, hour : Hours],
     load_mwh : Nullable(Loads)]

(* One reading a day on the same calendar day of both years, for every
   station, and the load of that hour: the rows the joins are tried on. *)
JoinTempRows ==
    [station : Stations,
     hour_utc : [year : Years, mmdd : {"07-04"}, hour : {14}],
     temp_C : Nullable(Temps)]

JoinLoadRows ==
    [region : Regions,
     hour_utc : [year : Years, mmdd : {"07-04"}, hour : {14}],
     load_mwh : {<<500>>}]

(* The bags of at most n rows of U. *)
RECURSIVE BagsUpTo(_, _)
BagsUpTo(U, n) ==
    IF n <= 0 THEN {EmptyBag}
    ELSE LET B == BagsUpTo(U, n - 1)
         IN B \cup {b (+) SetToBag({r}) : b \in B, r \in U}

----------------------------------------------------------------------------
(* The database: table name -> table.                                      *)

SourceTables == {"noaa_hourly_avg", "eia_load_hourly"}

DerivedTables == {"noaa_daily_temp", "noaa_temp_thresholds", "noaa_heatwave_flags",
                  "eia_daily_load", "heat_load_daily"}

TableNames == SourceTables \cup DerivedTables

Absent == [exists |-> FALSE, rows |-> EmptyBag]

Table(rows) == [exists |-> TRUE, rows |-> rows]

----------------------------------------------------------------------------
(* SQL building blocks.                                                    *)

RECURSIVE SumFn(_)
SumFn(f) ==
    IF DOMAIN f = {} THEN 0
    ELSE LET x == CHOOSE x \in DOMAIN f : TRUE
         IN f[x] + SumFn([y \in DOMAIN f \ {x} |-> f[y]])

(* The rows of bag B that lie in S, with their multiplicities: WHERE, and
   the rows of one GROUP BY group. *)
Where(B, S) == [r \in S \cap DOMAIN B |-> B[r]]

(* SELECT F[r] FROM B, F a function on the rows of B: the bag of the images,
   multiplicities added up. *)
Select(B, F) ==
    [y \in {F[r] : r \in DOMAIN B} |->
        SumFn([r \in {r \in DOMAIN B : F[r] = y} |-> B[r]])]

(* Faulty variant of Distinct: the replayed rows are kept. *)
DistinctKeepsReplays(B) == B

(* SELECT DISTINCT: every row once. *)
Distinct(B) == [r \in DOMAIN B |-> 1]

(* The non-null values of a column, as a bag of plain values: what an
   aggregate function sees. *)
ColumnValues(B, col) ==
    LET nn == Where(B, {r \in DOMAIN B : col[r] # Null})
    IN Select(nn, [r \in DOMAIN nn |-> col[r][1]])

SqlMax(V) ==
    IF DOMAIN V = {} THEN Null
    ELSE <<CHOOSE m \in DOMAIN V : \A v \in DOMAIN V : v <= m>>

SqlSum(V) ==
    IF DOMAIN V = {} THEN Null
    ELSE <<SumFn([v \in DOMAIN V |-> v * V[v]])>>

RECURSIVE Gcd(_, _)
Gcd(a, b) == IF b = 0 THEN a ELSE Gcd(b, a % b)

SqlAvg(V) ==
    IF DOMAIN V = {} THEN Null
    ELSE LET s == SumFn([v \in DOMAIN V |-> v * V[v]])
             n == SumFn(V)
             g == Gcd(s, n)
         IN <<s \div g, n \div g>>

(* DATE_TRUNC('day', ts) *)
date_trunc(ts) == [year |-> ts.year, mmdd |-> ts.mmdd]

(* strftime(day, '%m-%d') *)
strftime(day) == day.mmdd

(* Faulty variant of CreateTableAs: the rows are appended to the table of the
   earlier run (no DROP). *)
InsertInto(old, rows) == Table(old.rows (+) rows)

(* DROP TABLE IF EXISTS t; CREATE TABLE t AS <rows>: the old contents are
   gone whatever they were. *)
CreateTableAs(old, rows) == Table(rows)

----------------------------------------------------------------------------
(* build_noaa_daily: one row per (station, day) of noaa_hourly_avg.        *)

NoaaDailyRows(hourly) ==
    LET key(r) == [station |-> r.station, day_utc |-> date_trunc(r.hour_utc)]
        groups == {key(r) : r \in DOMAIN hourly}
        row(g) ==
            LET V == ColumnValues(Where(hourly, {r \in DOMAIN hourly : key(r) = g}),
                                  [r \in DOMAIN hourly |-> r.temp_C])
            IN [station |-> g.station, day_utc |-> g.day_utc,
                daily_max_temp_C |-> SqlMax(V), avg_temp_C |-> SqlAvg(V)]
    IN [x \in {row(g) : g \in groups} |-> 1]

(* Faulty variant of build_noaa_daily: rebuilding the daily table also
   drops the threshold table computed from the old one. *)
build_noaa_daily_drops_thresholds(d) ==
    [d EXCEPT !["noaa_daily_temp"] =
                  CreateTableAs(@, NoaaDailyRows(d["noaa_hourly_avg"].rows)),
              !["noaa_temp_thresholds"] = Absent]

build_noaa_daily(d) ==
    [d EXCEPT !["noaa_daily_temp"] =
        CreateTableAs(@, NoaaDailyRows(d["noaa_hourly_avg"].rows))]

----------------------------------------------------------------------------
(* build_noaa_thresholds: the 90th percentile of the daily maxima per      *)
(* (station, MM-DD).                                                       *)

Q90Num == 9
Q90Den == 10

RECURSIVE SortBag(_)
SortBag(V) ==
    IF DOMAIN V = {} THEN <<>>
    ELSE LET m == CHOOSE m \in DOMAIN V : \A v \in DOMAIN V : m <= v
             rest == IF V[m] = 1 THEN [v \in DOMAIN V \ {m} |-> V[v]]
                     ELSE [V EXCEPT ![m] = @ - 1]
         IN <<m>> \o SortBag(rest)

(* Faulty variant of quantile_cont: the interpolation adds the weighted upper order
   statistic instead of the weighted difference. *)
QuantileAddsUpper(V) ==
    IF DOMAIN V = {} THEN Null
    ELSE LET s == SortBag(V)
             rn == Q90Num * (Len(s) - 1)
             frn == rn \div Q90Den
             rem == rn % Q90Den
         IN IF rem = 0 THEN <<Q90Den * s[frn + 1]>>
            ELSE <<Q90Den * s[frn + 1] + rem * s[frn + 2]>>

(* quantile_cont(V, Q90Num/Q90Den) times Q90Den: linear interpolation
   between the order statistics around rank q * (n - 1). *)
quantile_cont(V) ==
    IF DOMAIN V = {} THEN Null
    ELSE LET s == SortBag(V)
             n == Len(s)
             rn == Q90Num * (n - 1)
             frn == rn \div Q90Den
             rem == rn % Q90Den
         IN IF rem = 0 THEN <<Q90Den * s[frn + 1]>>
            ELSE <<Q90Den * s[frn + 1] + rem * (s[frn + 2] - s[frn + 1])>>

NoaaThresholdRows(daily) ==
    LET key(r) == [station |-> r.station, mmdd |-> strftime(r.day_utc)]
        groups == {key(r) : r \in DOMAIN daily}
        row(g) ==
            LET V == ColumnValues(Where(daily, {r \in DOMAIN daily : key(r) = g}),
                                  [r \in DOMAIN daily |-> r.daily_max_temp_C])
            IN [station |-> g.station, mmdd |-> g.mmdd, t90_max |-> quantile_cont(V)]
    IN [x \in {row(g) : g \in groups} |-> 1]

build_noaa_thresholds(d) ==
    [d EXCEPT !["noaa_temp_thresholds"] =
        IF d["noaa_daily_temp"].exists
        THEN CreateTableAs(@, NoaaThresholdRows(d["noaa_daily_temp"].rows))
        ELSE Absent]

----------------------------------------------------------------------------
(* Joins.  A joined row is a pair <<l, m>>: l the left row, m the matching *)
(* right row as <<r>>, or Null where a LEFT JOIN found none (every right   *)
(* column of such a row reads NULL).  on is the set of the pairs <<l, r>>   *)
(* that satisfy the ON condition.                                          *)

InnerJoin(L, R, on) ==
    LET matched == {<<x[1], <<x[2]>>>> : x \in on \cap ((DOMAIN L) \X (DOMAIN R))}
    IN [p \in matched |-> L[p[1]] * R[p[2][1]]]

LeftJoin(L, R, on) ==
    LET inner == InnerJoin(L, R, on)
        unmatched == {<<l, Null>> :
                        l \in {l \in DOMAIN L : \A r \in DOMAIN R : <<l, r>> \notin on}}
    IN [p \in (DOMAIN inner) \cup unmatched |->
            IF p[2] = Null THEN L[p[1]] ELSE inner[p]]

(* Faulty variant of GeThreshold: an unknown comparison reads as not hot. *)
GeThresholdNotHot(tmax, t90) ==
    IF tmax = Null \/ t90 = Null THEN <<FALSE>>
    ELSE <<tmax[1] * Q90Den >= t90[1]>>

(* daily_max_temp_C >= t90_max in SQL's three-valued logic (t90_max is
   stored times Q90Den). *)
GeThreshold(tmax, t90) ==
    IF tmax = Null \/ t90 = Null THEN Null
    ELSE <<tmax[1] * Q90Den >= t90[1]>>

(* Faulty variant of ThresholdMatch: the calendar day is left out of the ON. *)
ThresholdMatchStationOnly(n, t) == n.station = t.station

(* ON d.station = t.station AND strftime(d.day_utc, '%m-%d') = t.mmdd *)
ThresholdMatch(n, t) == n.station = t.station /\ strftime(n.day_utc) = t.mmdd

----------------------------------------------------------------------------
(* build_noaa_heatwave_flags: the daily rows that have a threshold, with   *)
(* a 1/0 flag.                                                             *)

(* CASE WHEN d.daily_max_temp_C >= t.t90_max THEN 1 ELSE 0 END *)
FlagCase(tmax, t90) == IF GeThreshold(tmax, t90) = <<TRUE>> THEN 1 ELSE 0

(* FROM daily_with_mmdd d JOIN noaa_temp_thresholds t ON ... *)
JoinThresholds(daily, thresholds) ==
    InnerJoin(daily, thresholds,
              {x \in (DOMAIN daily) \X (DOMAIN thresholds) : ThresholdMatch(x[1], x[2])})

NoaaHeatwaveFlagRows(daily, thresholds) ==
    LET dt == JoinThresholds(daily, thresholds)
    IN Select(dt,
           [p \in DOMAIN dt |->
             [station |-> p[1].station, day_utc |-> p[1].day_utc,
              daily_max_temp_C |-> p[1].daily_max_temp_C,
              avg_temp_C |-> p[1].avg_temp_C,
              t90_max |-> p[2][1].t90_max,
              is_hot_day |-> FlagCase(p[1].daily_max_temp_C, p[2][1].t90_max)]])

build_noaa_heatwave_flags(d) ==
    [d EXCEPT !["noaa_heatwave_flags"] =
        IF d["noaa_daily_temp"].exists /\ d["noaa_temp_thresholds"].exists
        THEN CreateTableAs(@, NoaaHeatwaveFlagRows(d["noaa_daily_temp"].rows,
                                                   d["noaa_temp_thresholds"].rows))
        ELSE Absent]

----------------------------------------------------------------------------
(* build_eia_daily_load: daily total and peak of the distinct hourly rows. *)

EiaDailyLoadRows(hourly) ==
    LET hourly_unique == Distinct(hourly)
        key(r) == [region |-> r.region, day_utc |-> date_trunc(r.hour_utc)]
        groups == {key(r) : r \in DOMAIN hourly_unique}
        row(g) ==
            LET V == ColumnValues(
                         Where(hourly_unique, {r \in DOMAIN hourly_unique : key(r) = g}),
                         [r \in DOMAIN hourly_unique |-> r.load_mwh])
            IN [region |-> g.region, day_utc |-> g.day_utc,
                daily_total_mwh |-> SqlSum(V), daily_peak_mwh |-> SqlMax(V)]
    IN [x \in {row(g) : g \in groups} |-> 1]

build_eia_daily_load(d) ==
    [d EXCEPT !["eia_daily_load"] =
        CreateTableAs(@, EiaDailyLoadRows(d["eia_load_hourly"].rows))]

----------------------------------------------------------------------------
(* heat_load_daily: the unified table.                                     *)

(* The region column: CASE WHEN 'IAD' THEN 'PJM' WHEN 'BOS' THEN 'ISNE' END,
   NULL for any other station. *)
RegionColumn(station) ==
    IF station = "IAD" THEN <<"PJM">>
    ELSE IF station = "BOS" THEN <<"ISNE">>
    ELSE Null

(* The region of the load join: CASE WHEN 'IAD' THEN 'PJM' ELSE 'ISNE' END. *)
RegionOfJoin(station) == IF station = "IAD" THEN "PJM" ELSE "ISNE"

(* ON e.region = CASE ... END AND e.day_utc = n.day_utc *)
LoadMatch(n, e) == e.region = RegionOfJoin(n.station) /\ e.day_utc = n.day_utc

(* Faulty variant of LeftJoinThresholds: a plain JOIN, as in the flag table. *)
LeftJoinThresholdsInner(daily, thresholds) == JoinThresholds(daily, thresholds)

(* FROM noaa_daily_temp n LEFT JOIN noaa_temp_thresholds t ON ... *)
LeftJoinThresholds(daily, thresholds) ==
    LeftJoin(daily, thresholds,
             {x \in (DOMAIN daily) \X (DOMAIN thresholds) : ThresholdMatch(x[1], x[2])})

(* ... LEFT JOIN eia_daily_load e ON ...; nt the rows of the first join. *)
LeftJoinLoad(nt, load) ==
    LeftJoin(nt, load,
             {x \in (DOMAIN nt) \X (DOMAIN load) : LoadMatch(x[1][1], x[2])})

HeatLoadDailyRows(daily, thresholds, load) ==
    LET nte == LeftJoinLoad(LeftJoinThresholds(daily, thresholds), load)
    IN Select(nte,
           [q \in DOMAIN nte |->
             LET n == q[1][1]
                 t == q[1][2]
                 e == q[2]
                 t90 == IF t = Null THEN Null ELSE t[1].t90_max
             IN [station |-> n.station,
                 region |-> RegionColumn(n.station),
                 day_utc |-> n.day_utc,
                 daily_max_temp_C |-> n.daily_max_temp_C,
                 avg_temp_C |-> n.avg_temp_C,
                 t90_max |-> t90,
                 is_hot_day |-> GeThreshold(n.daily_max_temp_C, t90),
                 daily_total_mwh |-> IF e = Null THEN Null ELSE e[1].daily_total_mwh,
                 daily_peak_mwh |-> IF e = Null THEN Null ELSE e[1].daily_peak_mwh]])

heat_load_daily(d) ==
    [d EXCEPT !["heat_load_daily"] =
        IF /\ d["noaa_daily_temp"].exists
           /\ d["noaa_temp_thresholds"].exists
           /\ d["eia_daily_load"].exists
        THEN CreateTableAs(@, HeatLoadDailyRows(d["noaa_daily_temp"].rows,
                                                d["noaa_temp_thresholds"].rows,
                                                d["eia_daily_load"].rows))
        ELSE Absent]

(* The database an undisturbed python processing.py leaves: the five stages
   in order.  Every stage opens and closes its own connection, so the run
   itself is five steps of the state machine, one per stage, between which
   another process finds the database as the stages so far left it. *)
main(d) ==
    heat_load_daily(build_eia_daily_load(build_noaa_heatwave_flags(
        build_noaa_thresholds(build_noaa_daily(d)))))

----------------------------------------------------------------------------
(* analysis.py: the consumer of the unified table.                         *)

(* ORDER BY region, day_utc: strings in collation order with NULL last
   (DuckDB's default), days in calendar order. *)
RegionOrdinal(region) ==
    IF region = Null THEN 3 ELSE IF region[1] = "ISNE" THEN 1 ELSE 2

DayOrdinal(day) == day.year * 10000 + (IF day.mmdd = "07-04" THEN 704 ELSE 705)

OrderKeyLeq(r, s) ==
    \/ RegionOrdinal(r.region) < RegionOrdinal(s.region)
    \/ /\ RegionOrdinal(r.region) = RegionOrdinal(s.region)
       /\ DayOrdinal(r.day_utc) <= DayOrdinal(s.day_utc)

(* The sequences fetchdf() can return for the ordered SELECT: every row of
   the table once per copy, in key order; rows of equal key in any order. *)
RECURSIVE OrderBy(_)
OrderBy(B) ==
    IF DOMAIN B = {} THEN {<<>>}
    ELSE UNION {{<<m>> \o s : s \in OrderBy(B (-) SetToBag({m}))} :
                   m \in {r \in DOMAIN B : \A s \in DOMAIN B : OrderKeyLeq(r, s)}}

(* df["is_hot_day"].fillna(0).astype(int).astype(bool): NULL becomes 0,
   true 1 and false 0, and the boolean is "not zero". *)
is_hot_bool(is_hot_day) ==
    LET filled == IF is_hot_day = Null THEN 0
                  ELSE IF is_hot_day[1] THEN 1 ELSE 0
    IN filled # 0

(* The frame load_data() returns for the fetched sequence f: the columns of
   the table (to_datetime and to_numeric keep every value of the typed
   columns, a NULL stays missing) and the added column is_hot_bool. *)
DataFrame(f) ==
    [i \in DOMAIN f |->
        [station |-> f[i].station, region |-> f[i].region,
         day_utc |-> f[i].day_utc,
         daily_max_temp_C |-> f[i].daily_max_temp_C,
         avg_temp_C |-> f[i].avg_temp_C, t90_max |-> f[i].t90_max,
         is_hot_day |-> f[i].is_hot_day,
         daily_total_mwh |-> f[i].daily_total_mwh,
         daily_peak_mwh |-> f[i].daily_peak_mwh,
         is_hot_bool |-> is_hot_bool(f[i].is_hot_day)]]

(* The frames load_data() can return on the database d. *)
load_data(d) == {DataFrame(f) : f \in OrderBy(d["heat_load_daily"].rows)}

(* plot_avg_load_hot_vs_normal: the rows with a load, each with the label
   it is averaged under. *)
HotVsNormalLabel(hot) == IF hot THEN "Hot days" ELSE "Normal days"

plot_avg_load_hot_vs_normal(frame) ==
    LET HasLoad(r) == r.daily_total_mwh # Null
        sub == SelectSeq(frame, HasLoad)
    IN [i \in DOMAIN sub |->
           [region |-> sub[i].region, station |-> sub[i].station,
            day_utc |-> sub[i].day_utc,
            daily_total_mwh |-> sub[i].daily_total_mwh,
            label |-> HotVsNormalLabel(sub[i].is_hot_bool)]]

----------------------------------------------------------------------------
(* The state machine.                                                      *)

(* A database whose derived tables were never built. *)
Fresh(temp, load) ==
    [t \in TableNames |->
        IF t = "noaa_hourly_avg" THEN Table(temp)
        ELSE IF t = "eia_load_hourly" THEN Table(load)
        ELSE Absent]

(* The database file as the pipeline finds it: the two hourly tables
   populated from outside, the derived tables either never built or left by
   an earlier complete run, after which more hourly temperature rows
   arrived. *)
InitClimate == \E temp \in BagsUpTo(ClimateRows, MaxRows) : db = Fresh(temp, EmptyBag)

InitLoad == \E load \in BagsUpTo(LoadRows, MaxRows) : db = Fresh(EmptyBag, load)

InitJoin ==
    \E t0 \in BagsUpTo(JoinTempRows, MaxRows) :
      \E t1 \in BagsUpTo(JoinTempRows, MaxRows - BagCardinality(t0)) :
        \E load \in BagsUpTo(JoinLoadRows,
                              MaxRows - BagCardinality(t0) - BagCardinality(t1)) :
          \/ db = Fresh(t0 (+) t1, load)
          \/ db = [main(Fresh(t0, load)) EXCEPT !["noaa_hourly_avg"] = Table(t0 (+) t1)]

(* No frame has been loaded yet: df is Null, later <<frame>>. *)
Init == (InitClimate \/ InitLoad \/ InitJoin) /\ df = Null

BuildNoaaDaily == db' = build_noaa_daily(db) /\ UNCHANGED df

BuildNoaaThresholds == db' = build_noaa_thresholds(db) /\ UNCHANGED df

BuildNoaaHeatwaveFlags == db' = build_noaa_heatwave_flags(db) /\ UNCHANGED df

BuildEiaDailyLoad == db' = build_eia_daily_load(db) /\ UNCHANGED df

HeatLoadDaily == db' = heat_load_daily(db) /\ UNCHANGED df

(* python analysis.py: load_data() on the read-only connection; the SELECT
   raises when the unified table does not exist. *)
LoadData ==
    /\ db["heat_load_daily"].exists
    /\ \E frame \in load_data(db) : df' = <<frame>>
    /\ UNCHANGED db

Next ==
    \/ BuildNoaaDaily
    \/ BuildNoaaThresholds
    \/ BuildNoaaHeatwaveFlags
    \/ BuildEiaDailyLoad
    \/ HeatLoadDaily

Spec == Init /\ [][Next]_vars

(* The pipeline and the analysis script run against the same database
   file, in any order. *)
NextAnalysis == Next \/ LoadData

SpecAnalysis == Init /\ [][NextAnalysis]_vars

----------------------------------------------------------------------------
(* Properties.                                                             *)

Rows(d, t) == DOMAIN d[t].rows

(* The database is as a stage leaves it: the stage has built its table from
   the tables now in the database, so running it again changes nothing (C8).
   The states after build_noaa_thresholds() and heat_load_daily(), called
   alone or in the course of python processing.py, are exactly these. *)
ThresholdsBuilt == db["noaa_temp_thresholds"].exists /\ db = build_noaa_thresholds(db)

UnifiedBuilt == db["heat_load_daily"].exists /\ db = heat_load_daily(db)

(* The steps that build noaa_daily_temp and heat_load_daily. *)
DailyStep == BuildNoaaDaily

UnifiedStep == HeatLoadDaily /\ db'["heat_load_daily"].exists

(* C1: after heat_load_daily() the unified table has exactly one row per row
   of noaa_daily_temp: every (station, day) of the daily table occurs in it
   as often as in the daily table, and the two row counts are equal. *)
C1Post(d) ==
    LET heat == d["heat_load_daily"].rows
        daily == d["noaa_daily_temp"].rows
    IN /\ BagCardinality(heat) = BagCardinality(daily)
       /\ \A n \in DOMAIN daily :
            BagCardinality(Where(heat, {r \in DOMAIN heat :
                r.station = n.station /\ r.day_utc = n.day_utc})) = daily[n]

C1_JoinCompleteness == UnifiedBuilt => C1Post(db)

(* The unified table was built from two daily rows, one with a threshold
   row and one without. *)
C1_Witness ==
    /\ UnifiedBuilt
    /\ BagCardinality(db["heat_load_daily"].rows) = 2
    /\ BagCardinality(db["noaa_daily_temp"].rows) = 2
    /\ \E r1, r2 \in Rows(db, "heat_load_daily") :
          /\ r1.t90_max # Null
          /\ r2.t90_max = Null
          /\ \A t \in Rows(db, "noaa_temp_thresholds") :
                ~(t.station = r2.station /\ t.mmdd = r2.day_utc.mmdd)

(* C2: every row of the unified table carries the total and the peak of the
   eia_daily_load row of its own region column and day, and nulls when there
   is no such row; a row with a null region carries no load. *)
C2Post(d) ==
    \A r \in Rows(d, "heat_load_daily") :
        LET m == {e \in Rows(d, "eia_daily_load") :
                    r.region = <<e.region>> /\ e.day_utc = r.day_utc}
        IN IF m = {}
           THEN r.daily_total_mwh = Null /\ r.daily_peak_mwh = Null
           ELSE \E e \in m : /\ r.daily_total_mwh = e.daily_total_mwh
                             /\ r.daily_peak_mwh = e.daily_peak_mwh

C2_LoadOfOwnRegion == [][UnifiedStep => C2Post(db')]_vars

(* C3: in every row of the unified table with a non-null t90_max, is_hot_day
   is the boolean daily_max_temp_C >= t90_max: true when the maximum reaches
   the threshold, false otherwise. *)
C3Post(d) ==
    \A r \in Rows(d, "heat_load_daily") :
        r.t90_max # Null =>
            r.is_hot_day = <<(/\ r.daily_max_temp_C # Null
                              /\ r.daily_max_temp_C[1] * Q90Den >= r.t90_max[1])>>

C3_FlagConsistency == [][UnifiedStep => C3Post(db')]_vars

(* C4: a daily row with no threshold row for its station and MM-DD is still
   in the unified table, with t90_max null and is_hot_day null (never
   false). *)
C4Post(d) ==
    \A n \in Rows(d, "noaa_daily_temp") :
        (\A t \in Rows(d, "noaa_temp_thresholds") :
            ~(t.station = n.station /\ t.mmdd = n.day_utc.mmdd))
        => /\ \E r \in Rows(d, "heat_load_daily") :
                r.station = n.station /\ r.day_utc = n.day_utc
           /\ \A r \in Rows(d, "heat_load_daily") :
                r.station = n.station /\ r.day_utc = n.day_utc
                => r.t90_max = Null /\ r.is_hot_day = Null

C4_MissingThreshold == UnifiedBuilt => C4Post(db)

(* The unified table holds a day with a temperature and no threshold row. *)
C4_Witness ==
    /\ UnifiedBuilt
    /\ \E r \in Rows(db, "heat_load_daily") :
          /\ r.daily_max_temp_C # Null
          /\ r.t90_max = Null
          /\ r.is_hot_day = Null
          /\ \A t \in Rows(db, "noaa_temp_thresholds") :
                ~(t.station = r.station /\ t.mmdd = r.day_utc.mmdd)

(* C5: eia_daily_load has, for every (region, day) of eia_load_hourly, one
   row whose total is the sum of the loads of the distinct (region, hour,
   load) triples of that day and whose peak is their maximum (both null when
   no triple has a load): a replayed row counts once. *)
C5Post(d) ==
    LET hourly == d["eia_load_hourly"].rows
        out == d["eia_daily_load"].rows
    IN \A h \in DOMAIN hourly :
        LET triples == {x \in DOMAIN hourly :
                          /\ x.region = h.region
                          /\ x.hour_utc.year = h.hour_utc.year
                          /\ x.hour_utc.mmdd = h.hour_utc.mmdd
                          /\ x.load_mwh # Null}
            loads == {x.load_mwh[1] : x \in triples}
        IN \E o \in DOMAIN out :
            /\ o.region = h.region
            /\ o.day_utc.year = h.hour_utc.year
            /\ o.day_utc.mmdd = h.hour_utc.mmdd
            /\ IF triples = {}
               THEN o.daily_total_mwh = Null /\ o.daily_peak_mwh = Null
               ELSE /\ o.daily_total_mwh = <<SumFn([x \in triples |-> x.load_mwh[1]])>>
                    /\ o.daily_peak_mwh # Null
                    /\ o.daily_peak_mwh[1] \in loads
                    /\ \A v \in loads : v <= o.daily_peak_mwh[1]

C5_DedupTotal ==
    db["eia_daily_load"].exists /\ db = build_eia_daily_load(db) => C5Post(db)

(* The hourly table holds a replayed row, and the daily total of its day is
   its load, once. *)
C5_Witness ==
    /\ db["eia_daily_load"].exists
    /\ \E h \in Rows(db, "eia_load_hourly") :
          /\ db["eia_load_hourly"].rows[h] >= 2
          /\ h.load_mwh # Null
          /\ \E o \in Rows(db, "eia_daily_load") :
                /\ o.region = h.region
                /\ o.day_utc = date_trunc(h.hour_utc)
                /\ o.daily_total_mwh = h.load_mwh

(* C6: noaa_daily_temp never holds a row whose daily_max_temp_C and
   avg_temp_C are both null: a day whose hourly temperatures are all null
   has no row. *)
C6Post(d) ==
    \A r \in Rows(d, "noaa_daily_temp") :
        ~(r.daily_max_temp_C = Null /\ r.avg_temp_C = Null)

C6_NoAllNullDay == [][DailyStep => C6Post(db')]_vars

(* C7: heat_load_daily() does not complete with a row of a station outside
   the IAD/BOS mapping. *)
C7Post(d) ==
    \A r \in Rows(d, "heat_load_daily") : r.station \in {"IAD", "BOS"}

C7_UnmappedStationRaises == [][UnifiedStep => C7Post(db')]_vars

(* C8: from any database, a second run of the whole pipeline, or of any
   single stage, on what the first run left changes no table. *)
C8_Idempotent ==
    /\ main(main(db)) = main(db)
    /\ build_noaa_daily(build_noaa_daily(db)) = build_noaa_daily(db)
    /\ build_noaa_thresholds(build_noaa_thresholds(db)) = build_noaa_thresholds(db)
    /\ build_noaa_heatwave_flags(build_noaa_heatwave_flags(db))
            = build_noaa_heatwave_flags(db)
    /\ build_eia_daily_load(build_eia_daily_load(db)) = build_eia_daily_load(db)
    /\ heat_load_daily(heat_load_daily(db)) = heat_load_daily(db)

(* A database a whole run has left, with rows in the unified and the load
   table. *)
C8_Witness ==
    /\ db = main(db)
    /\ db["heat_load_daily"].exists
    /\ Rows(db, "heat_load_daily") # {}
    /\ Rows(db, "noaa_heatwave_flags") # {}
    /\ Rows(db, "eia_daily_load") # {}

(* C9: every derived table has at most one row per key: (station, day) for
   noaa_daily_temp, noaa_heatwave_flags and heat_load_daily, (station, mmdd)
   for noaa_temp_thresholds, (region, day) for eia_daily_load. *)
UniqueKey(B, K) ==
    \A r \in DOMAIN B :
        /\ B[r] = 1
        /\ \A r2 \in DOMAIN B : K[r] = K[r2] => r = r2

StationDayUnique(B) == UniqueKey(B, [r \in DOMAIN B |-> <<r.station, r.day_utc>>])

C9_KeysUnique ==
    /\ StationDayUnique(db["noaa_daily_temp"].rows)
    /\ StationDayUnique(db["noaa_heatwave_flags"].rows)
    /\ StationDayUnique(db["heat_load_daily"].rows)
    /\ LET B == db["noaa_temp_thresholds"].rows
       IN UniqueKey(B, [r \in DOMAIN B |-> <<r.station, r.mmdd>>])
    /\ LET B == db["eia_daily_load"].rows
       IN UniqueKey(B, [r \in DOMAIN B |-> <<r.region, r.day_utc>>])

(* All five tables are built, and one station has two calendar days in the
   threshold, the flag and the unified table. *)
C9_Witness ==
    /\ \A t \in DerivedTables : db[t].exists
    /\ \E r1, r2 \in Rows(db, "heat_load_daily") :
          r1.station = r2.station /\ r1.day_utc.mmdd # r2.day_utc.mmdd
    /\ \E r1, r2 \in Rows(db, "noaa_heatwave_flags") :
          r1.station = r2.station /\ r1.day_utc # r2.day_utc
    /\ \E t1, t2 \in Rows(db, "noaa_temp_thresholds") :
          t1.station = t2.station /\ t1.mmdd # t2.mmdd

(* C10: every threshold row belongs to a (station, mmdd) that has a daily
   record; when that group has n > 0 daily maxima, t90_max lies between the
   least and the greatest of them, and is the single one when n = 1. *)
C10Post(d) ==
    LET daily == d["noaa_daily_temp"].rows
    IN \A t \in Rows(d, "noaa_temp_thresholds") :
        LET grp == {n \in DOMAIN daily :
                      n.station = t.station /\ n.day_utc.mmdd = t.mmdd}
            samples == {n \in grp : n.daily_max_temp_C # Null}
            vals == {n.daily_max_temp_C[1] : n \in samples}
            cnt == SumFn([n \in samples |-> daily[n]])
        IN /\ grp # {}
           /\ samples # {} =>
                /\ t.t90_max # Null
                /\ \E v \in vals : Q90Den * v <= t.t90_max[1]
                /\ \E v \in vals : t.t90_max[1] <= Q90Den * v
                /\ cnt = 1 => \A v \in vals : t.t90_max[1] = Q90Den * v

C10_QuantileBound == ThresholdsBuilt => C10Post(db)

(* A threshold interpolated strictly between two different daily maxima of
   its group. *)
C10_Witness ==
    /\ ThresholdsBuilt
    /\ \E t \in Rows(db, "noaa_temp_thresholds") :
          /\ t.t90_max # Null
          /\ \E n1, n2 \in Rows(db, "noaa_daily_temp") :
                /\ n1.station = t.station /\ n1.day_utc.mmdd = t.mmdd
                /\ n2.station = t.station /\ n2.day_utc.mmdd = t.mmdd
                /\ n1.daily_max_temp_C # Null /\ n2.daily_max_temp_C # Null
                /\ Q90Den * n1.daily_max_temp_C[1] < t.t90_max[1]
                /\ t.t90_max[1] < Q90Den * n2.daily_max_temp_C[1]

----------------------------------------------------------------------------
(* The columns of a frame row that come from the unified table. *)
TableColumns(r) ==
    [station |-> r.station, region |-> r.region, day_utc |-> r.day_utc,
     daily_max_temp_C |-> r.daily_max_temp_C, avg_temp_C |-> r.avg_temp_C,
     t90_max |-> r.t90_max, is_hot_day |-> r.is_hot_day,
     daily_total_mwh |-> r.daily_total_mwh, daily_peak_mwh |-> r.daily_peak_mwh]

RECURSIVE SeqToBag(_)
SeqToBag(s) ==
    IF s = <<>> THEN EmptyBag ELSE SetToBag({Head(s)}) (+) SeqToBag(Tail(s))

(* The frame holds the whole unified table, in (region, day) order, and no
   row without a flag is handed on as a not-hot day: neither its
   is_hot_bool is false nor is it averaged under "Normal days". *)
C11Post(d, frame) ==
    /\ SeqToBag([i \in DOMAIN frame |-> TableColumns(frame[i])]) = d["heat_load_daily"].rows
    /\ \A i, j \in DOMAIN frame : i <= j => OrderKeyLeq(frame[i], frame[j])
    /\ \A i \in DOMAIN frame :
          frame[i].is_hot_day = Null => frame[i].is_hot_bool # FALSE
    /\ LET sub == plot_avg_load_hot_vs_normal(frame)
       IN \A i \in DOMAIN sub :
            sub[i].label = "Normal days" =>
              \E r \in Rows(d, "heat_load_daily") :
                /\ r.station = sub[i].station /\ r.day_utc = sub[i].day_utc
                /\ r.is_hot_day = <<FALSE>>

(* C11: load_data() returns the whole unified table ordered by (region,
   day), and a row whose is_hot_day is NULL is never reported to the plots
   as a normal (not hot) day. *)
C11_NullFlagNotNormal == [][LoadData => C11Post(db, df'[1])]_vars

----------------------------------------------------------------------------
SameStationDay(f, u) == f.station = u.station /\ f.day_utc = u.day_utc

(* The flag table is the unified table restricted to the days with a
   threshold: a day is in the flag table exactly when its unified row has
   a t90_max, and then the two rows carry the same t90_max and the same
   flag, 1 for true and 0 for false. *)
C12Post(d) ==
    LET F == Rows(d, "noaa_heatwave_flags")
        U == Rows(d, "heat_load_daily")
    IN /\ \A f \in F : \E u \in U : SameStationDay(f, u)
       /\ \A u \in U : (\E f \in F : SameStationDay(f, u)) <=> u.t90_max # Null
       /\ \A f \in F : \A u \in U :
             SameStationDay(f, u) =>
               /\ f.t90_max = u.t90_max
               /\ f.is_hot_day = 1 <=> u.is_hot_day = <<TRUE>>
               /\ f.is_hot_day = 0 <=> u.is_hot_day = <<FALSE>>

(* C12: when heat_load_daily() completes the pipeline, so that every table
   is as python processing.py leaves it, noaa_heatwave_flags is exactly the
   restriction of heat_load_daily to the (station, day) with a non-null
   t90_max, with equal t90_max and the same is_hot_day truth value, also
   when daily_max_temp_C is NULL. *)
C12_FlagsAreRestriction ==
    [][(HeatLoadDaily /\ db' = main(db')) => C12Post(db')]_vars

----------------------------------------------------------------------------
(* The database e differs from d in the table own at most. *)
OnlyWrites(d, e, own) == \A t \in TableNames \ {own} : e[t] = d[t]

(* The database d with the tables T dropped. *)
Without(d, T) == [t \in TableNames |-> IF t \in T THEN Absent ELSE d[t]]

(* The derived tables in the order main() builds them, each with the tables
   built after it. *)
FromDaily == DerivedTables

FromThresholds == FromDaily \ {"noaa_daily_temp"}

FromFlags == FromThresholds \ {"noaa_temp_thresholds"}

FromEia == FromFlags \ {"noaa_heatwave_flags"}

FromUnified == FromEia \ {"eia_daily_load"}

(* C13: whatever the database holds, each stage changes no table but its
   own output, the raw hourly tables included, and its output is the same
   when its own and every later stage's table is taken away first: it reads
   source tables and tables of earlier stages only. *)
C13_StageFrame ==
    /\ OnlyWrites(db, build_noaa_daily(db), "noaa_daily_temp")
    /\ OnlyWrites(db, build_noaa_thresholds(db), "noaa_temp_thresholds")
    /\ OnlyWrites(db, build_noaa_heatwave_flags(db), "noaa_heatwave_flags")
    /\ OnlyWrites(db, build_eia_daily_load(db), "eia_daily_load")
    /\ OnlyWrites(db, heat_load_daily(db), "heat_load_daily")
    /\ build_noaa_daily(Without(db, FromDaily))["noaa_daily_temp"]
          = build_noaa_daily(db)["noaa_daily_temp"]
    /\ build_noaa_thresholds(Without(db, FromThresholds))["noaa_temp_thresholds"]
          = build_noaa_thresholds(db)["noaa_temp_thresholds"]
    /\ build_noaa_heatwave_flags(Without(db, FromFlags))["noaa_heatwave_flags"]
          = build_noaa_heatwave_flags(db)["noaa_heatwave_flags"]
    /\ build_eia_daily_load(Without(db, FromEia))["eia_daily_load"]
          = build_eia_daily_load(db)["eia_daily_load"]
    /\ heat_load_daily(Without(db, FromUnified))["heat_load_daily"]
          = heat_load_daily(db)["heat_load_daily"]

(* The daily table has just been rebuilt from hourly rows that arrived
   after a complete run: every derived table exists, the daily table is
   that of the hourly rows now present, and the thresholds, the flags and
   the unified table, all with rows, are still those of the earlier run. *)
C13_Witness ==
    /\ \A t \in DerivedTables : db[t].exists
    /\ \A t \in DerivedTables \ {"eia_daily_load"} : db[t].rows # EmptyBag
    /\ db = build_noaa_daily(db)
    /\ db # build_noaa_thresholds(db)
    /\ db # build_noaa_heatwave_flags(db)
    /\ db # heat_load_daily(db)

====
